---- MODULE Spec2Model ----
(***************************************************************************)
(* State-machine model of the fittrack-pro API handlers: challenges and    *)
(* their leaderboard, meals with food entries, the charts/dashboard        *)
(* aggregation, the nutrition insights, weight logs, measurements,         *)
(* activities and exercises, and of the GPS recorder page.  Every handler  *)
(* is translated from its route file; the store is the set of tables the   *)
(* handlers reach through prisma.                                          *)
(***************************************************************************)
EXTENDS Integers, Sequences, FiniteSets, Bags, TLC

\* ------------------------------------------------------------------ bounds
MaxChallenges == 1
MaxTime == 1
MaxWorkouts == 2
NumRequests == 2
MaxRecords == 3
MaxFixes == 3
MaxDuration == 2
MaxLogs == 2

\* ------------------------------------------------------------------ inputs
NoUser == "anonymous"
Users == {"alice", "bob"}
Callers == Users \cup {NoUser}

\* Request bodies offered to POST /api/challenges (dates are instants of the
\* model clock; goalValue 0 and the reversed window are the invalid shapes).
ChallengeBodies ==
  { [challengeType |-> "workout_count", goalValue |-> 1, startDate |-> 0, endDate |-> 0],
    [challengeType |-> "distance",      goalValue |-> 2, startDate |-> 1, endDate |-> 0],
    [challengeType |-> "steps",         goalValue |-> 0, startDate |-> 0, endDate |-> 1] }

WorkoutDates == 0..MaxTime

VARIABLES
  now,             \* the server clock (new Date())
  challenges,      \* table Challenge: sequence, the index is the id
  participations,  \* table ChallengeParticipation: a bag of rows
  workouts,        \* table Workout: a bag of rows
  inflight,        \* bag of the requests suspended between two store calls
  meals,           \* table Meal: sequence, the index is the id
  foodEntries,     \* table FoodEntry: set of rows, each with its id
  nextFoodId,      \* the id the next FoodEntry row gets
  response,        \* the last finished exchange: the handler's answer, and
                   \* for a charts or dashboard read the request it answers
  chartsPage,      \* the progress charts page: the statistics it shows
  \* RecordActivityPage, the GPS recorder:
  activityType,    \* useState 'running' | 'cycling' | ...
  isRecording,     \* useState(false)
  isPaused,        \* useState(false)
  positions,       \* useState<Position[]>([])
  distance,        \* useState(0), in meters
  duration,        \* useState(0), in seconds
  startTime,       \* useState<Date | null>(null)
  saveDialogOpen,  \* useState(false)
  watching,        \* watchIdRef names a position watch that is not cleared
  ticking,         \* intervalRef names an interval that is not cleared
  reports,         \* the coordinates the position watch has delivered
  saved,           \* the body of the POST /api/activities that saved the
                   \* last recording, if one was sent since it started
  weightLogs,      \* table WeightLog: set of rows, each with its id
  bodyMeasurements,\* table BodyMeasurement: set of rows, each with its id
  activities,      \* table Activity: set of rows, each with its id
  exercises,       \* table Exercise: set of rows, each with its id
  nextRowId        \* the id the next row of these four tables gets

challengeVars == <<challenges, participations, inflight>>
mealVars == <<meals, foodEntries, nextFoodId>>
recorderVars == <<activityType, isRecording, isPaused, positions, distance, duration,
                  startTime, saveDialogOpen, watching, ticking, reports, saved>>
logVars == <<weightLogs, bodyMeasurements, activities, exercises, nextRowId>>
clientVars == <<chartsPage, recorderVars>>
vars == <<now, challenges, participations, workouts, inflight, meals, foodEntries,
          nextFoodId, response, clientVars, logVars>>

\* ----------------------------------------------------------------- helpers
\* a request suspended at an await: where it is, who sent it, for which id
Suspended(pc, caller, c) == [pc |-> pc, userId |-> caller, challengeId |-> c]

\* the status recorded when a handler returns without a response
NoResponse == 0

\* { calories: 0, protein: 0, carbs: 0, fats: 0 }
ZeroTotals == [calories |-> 0, protein |-> 0, carbs |-> 0, fats |-> 0]

\* the parameters of a read request: the session user, ?days= and the
\* timezone the server runs in
ReadRequest(caller, days, tz) == [caller |-> caller, days |-> days, tz |-> tz]

\* stats: { daysAnalyzed, avgDailyCalories, ... } of the insights answer
ZeroStats ==
  [daysAnalyzed |-> 0, avgDailyCalories |-> 0, avgDailyProtein |-> 0,
   avgDailyCarbs |-> 0, avgDailyFats |-> 0]

Reply(handler, status) ==
  [handler |-> handler, status |-> status, challengeId |-> 0, leaderboard |-> <<>>,
   nutritionData |-> <<>>, workoutData |-> <<>>, todayTotals |-> ZeroTotals,
   stats |-> ZeroStats, meals |-> <<>>, request |-> ReadRequest(NoUser, 0, 0)]

\* the orders in which a query without orderBy may return the rows of B
RECURSIVE FetchOrders(_)
FetchOrders(B) ==
  IF B = EmptyBag THEN { <<>> }
  ELSE UNION { { <<x>> \o p : p \in FetchOrders(B (-) SetToBag({x})) } : x \in BagToSet(B) }

\* the rows of table B that are in the set matching (a where clause)
RowsWhere(B, matching) ==
  [row \in BagToSet(B) \cap matching |-> B[row]]

\* variant: the schema accepts zero (z.number().min(0))
IsPositive_nonnegative(n) == n >= 0

\* z.number().positive()
IsPositive(n) == n > 0

\* prisma.challengeParticipation.findUnique({ where: { challengeId_userId } })
FindParticipation(rows, c, u) ==
  { p \in BagToSet(rows) : p.challengeId = c /\ p.userId = u }

\* variant: the table has no unique key on (challengeId, userId)
UniqueKeyViolated_absent(rows, c, u) == FALSE

\* The compound unique key challengeId_userId of ChallengeParticipation: an
\* insert of a second row with the same key is refused by the store.
UniqueKeyViolated(rows, c, u) == FindParticipation(rows, c, u) # {}

\* new Date(challenge.endDate) < new Date()
Expired(challenge, t) == challenge.endDate < t

\* prisma.challengeParticipation.create: joinedAt defaults to the insert time
ParticipationRow(c, u, t) == [challengeId |-> c, userId |-> u, joinedAt |-> t]

\* prisma.challengeParticipation.findMany({ where: { challengeId } }): the
\* matching rows (no orderBy: the store picks the order)
ParticipantsOf(rows, c) ==
  RowsWhere(rows, { p \in BagToSet(rows) : p.challengeId = c })

\* prisma.challengeParticipation.delete({ where: { challengeId_userId } })
DeleteParticipation(rows, c, u) ==
  RowsWhere(rows, { p \in BagToSet(rows) : ~(p.challengeId = c /\ p.userId = u) })

\* ------------------------------------------------------------- leaderboard
\* variant: the rank is the 0-based index itself
LeaderboardEntry_rankFromZero(p, index) ==
  [userId |-> p.userId,
   progress |-> 0,
   progressPercentage |-> 0,
   joinedAt |-> p.joinedAt,
   isCompleted |-> FALSE,
   rank |-> index]

\* variant: the placeholder marks every entry completed
LeaderboardEntry_allCompleted(p, index) ==
  [userId |-> p.userId,
   progress |-> 0,
   progressPercentage |-> 0,
   joinedAt |-> p.joinedAt,
   isCompleted |-> TRUE,
   rank |-> index + 1]

\* participants.map((p, index) => ({ ... })) with index counted from 0
LeaderboardEntry(p, index) ==
  [userId |-> p.userId,
   progress |-> 0,
   progressPercentage |-> 0,
   joinedAt |-> p.joinedAt,
   isCompleted |-> FALSE,
   rank |-> index + 1]

\* the body of the 200 answer for the participation rows in fetch order
LeaderboardOf(participants) ==
  [i \in DOMAIN participants |-> LeaderboardEntry(participants[i], i - 1)]

\* variant: a challenge without participants is answered like a missing one
LeaderboardResponse_emptyIs404(caller, c, participants) ==
  IF caller = NoUser THEN [Reply("leaderboard", 401) EXCEPT !.challengeId = c]
  ELSE IF c \notin DOMAIN challenges \/ participants = <<>>
    THEN [Reply("leaderboard", 404) EXCEPT !.challengeId = c]
  ELSE [Reply("leaderboard", 200) EXCEPT
          !.challengeId = c, !.leaderboard = LeaderboardOf(participants)]

\* GET /api/challenges/[id]/leaderboard
LeaderboardResponse(caller, c, participants) ==
  IF caller = NoUser THEN [Reply("leaderboard", 401) EXCEPT !.challengeId = c]
  ELSE IF c \notin DOMAIN challenges THEN [Reply("leaderboard", 404) EXCEPT !.challengeId = c]
  ELSE [Reply("leaderboard", 200) EXCEPT
          !.challengeId = c, !.leaderboard = LeaderboardOf(participants)]

GetLeaderboard(caller, c) ==
  /\ \E participants \in FetchOrders(ParticipantsOf(participations, c)) :
       response' = LeaderboardResponse(caller, c, participants)
  /\ UNCHANGED <<clientVars, logVars, now, challenges, participations, workouts, inflight, mealVars>>

\* GET /api/challenges/[id]/leaderboard among other requests, up to and
\* including prisma.challenge.findUnique
LeaderboardLookup(caller, c) ==
  /\ BagCardinality(inflight) < NumRequests
  /\ IF caller = NoUser
       THEN /\ response' = [Reply("leaderboard", 401) EXCEPT !.challengeId = c]
            /\ UNCHANGED inflight
     ELSE IF c \notin DOMAIN challenges
       THEN /\ response' = [Reply("leaderboard", 404) EXCEPT !.challengeId = c]
            /\ UNCHANGED inflight
     ELSE /\ inflight' = inflight (+) SetToBag({Suspended("leaderboardFound", caller, c)})
          /\ UNCHANGED response
  /\ UNCHANGED <<clientVars, logVars, now, challenges, participations, workouts, mealVars>>

\* variant: viewing the leaderboard enrols the viewer in the challenge
LeaderboardFetch_enrolsViewer(req) ==
  /\ BagIn(req, inflight)
  /\ req.pc = "leaderboardFound"
  /\ participations' =
       IF FindParticipation(participations, req.challengeId, req.userId) # {}
         THEN participations
         ELSE participations (+)
                SetToBag({ParticipationRow(req.challengeId, req.userId, now)})
  /\ \E participants \in FetchOrders(ParticipantsOf(participations', req.challengeId)) :
       response' = [Reply("leaderboard", 200) EXCEPT
                      !.challengeId = req.challengeId,
                      !.leaderboard = LeaderboardOf(participants)]
  /\ inflight' = inflight (-) SetToBag({req})
  /\ UNCHANGED <<clientVars, logVars, now, challenges, workouts, mealVars>>

\* GET /api/challenges/[id]/leaderboard: prisma.challengeParticipation.findMany
\* and the 200 answer
LeaderboardFetch(req) ==
  /\ BagIn(req, inflight)
  /\ req.pc = "leaderboardFound"
  /\ \E participants \in FetchOrders(ParticipantsOf(participations, req.challengeId)) :
       response' = [Reply("leaderboard", 200) EXCEPT
                      !.challengeId = req.challengeId,
                      !.leaderboard = LeaderboardOf(participants)]
  /\ inflight' = inflight (-) SetToBag({req})
  /\ UNCHANGED <<clientVars, logVars, now, challenges, participations, workouts, mealVars>>

\* -------------------------------------------------------------- challenges
\* POST /api/challenges up to and including prisma.challenge.create
CreateChallenge(caller, body) ==
  /\ BagCardinality(inflight) < NumRequests
  /\ Len(challenges) < MaxChallenges
  /\ IF caller = NoUser
       THEN /\ response' = Reply("createChallenge", 401)
            /\ UNCHANGED <<challenges, inflight>>
     ELSE IF ~IsPositive(body.goalValue)
       THEN /\ response' = Reply("createChallenge", 400)
            /\ UNCHANGED <<challenges, inflight>>
     ELSE /\ challenges' = Append(challenges,
                 [creatorId |-> caller,
                  challengeType |-> body.challengeType,
                  goalValue |-> body.goalValue,
                  startDate |-> body.startDate,
                  endDate |-> body.endDate])
          /\ inflight' = inflight (+)
                 SetToBag({Suspended("challengeCreated", caller, Len(challenges) + 1)})
          /\ UNCHANGED response
  /\ UNCHANGED <<clientVars, logVars, now, participations, workouts, mealVars>>

\* POST /api/challenges: "Auto-join creator to challenge" and the 201 answer;
\* a refused insert throws, and the catch block answers only a ZodError, so
\* the handler then returns without a response
AutoJoinCreator(req) ==
  /\ BagIn(req, inflight)
  /\ req.pc = "challengeCreated"
  /\ IF UniqueKeyViolated(participations, req.challengeId, req.userId)
       THEN /\ response' = Reply("createChallenge", NoResponse)
            /\ UNCHANGED participations
       ELSE /\ participations' = participations (+)
                 SetToBag({ParticipationRow(req.challengeId, req.userId, now)})
            /\ response' = Reply("createChallenge", 201)
  /\ inflight' = inflight (-) SetToBag({req})
  /\ UNCHANGED <<clientVars, logVars, now, challenges, workouts, mealVars>>

\* POST /api/challenges: the auto-join insert is rejected by the store for a
\* reason other than the unique key (the database cannot be reached, the
\* query times out); the error reaches the same catch block
AutoJoinRejected(req) ==
  /\ BagIn(req, inflight)
  /\ req.pc = "challengeCreated"
  /\ response' = Reply("createChallenge", NoResponse)
  /\ inflight' = inflight (-) SetToBag({req})
  /\ UNCHANGED <<clientVars, logVars, now, challenges, participations, workouts, mealVars>>

\* POST /api/challenges/[id]/join up to the "already participating" lookup
JoinCheck(caller, c) ==
  /\ BagCardinality(inflight) < NumRequests
  /\ IF caller = NoUser
       THEN /\ response' = Reply("join", 401)
            /\ UNCHANGED inflight
     ELSE IF c \notin DOMAIN challenges
       THEN /\ response' = Reply("join", 404)
            /\ UNCHANGED inflight
     ELSE IF Expired(challenges[c], now)
       THEN /\ response' = Reply("join", 400)
            /\ UNCHANGED inflight
     ELSE IF FindParticipation(participations, c, caller) # {}
       THEN /\ response' = Reply("join", 400)
            /\ UNCHANGED inflight
     ELSE /\ inflight' = inflight (+) SetToBag({Suspended("joinChecked", caller, c)})
          /\ UNCHANGED response
  /\ UNCHANGED <<clientVars, logVars, now, challenges, participations, workouts, mealVars>>

\* POST /api/challenges/[id]/join: prisma.challengeParticipation.create; a
\* refused insert throws and is answered by the catch block
JoinCreate(req) ==
  /\ BagIn(req, inflight)
  /\ req.pc = "joinChecked"
  /\ IF UniqueKeyViolated(participations, req.challengeId, req.userId)
       THEN /\ response' = Reply("join", 500)
            /\ UNCHANGED participations
       ELSE /\ participations' = participations (+)
                 SetToBag({ParticipationRow(req.challengeId, req.userId, now)})
            /\ response' = Reply("join", 200)
  /\ inflight' = inflight (-) SetToBag({req})
  /\ UNCHANGED <<clientVars, logVars, now, challenges, workouts, mealVars>>

\* DELETE /api/challenges/[id]/join: delete throws when no row has the key
LeaveChallenge(caller, c) ==
  /\ IF caller = NoUser
       THEN /\ response' = Reply("leave", 401)
            /\ UNCHANGED participations
     ELSE IF FindParticipation(participations, c, caller) = {}
       THEN /\ response' = Reply("leave", 500)
            /\ UNCHANGED participations
     ELSE /\ participations' = DeleteParticipation(participations, c, caller)
          /\ response' = Reply("leave", 200)
  /\ UNCHANGED <<clientVars, logVars, now, challenges, workouts, inflight, mealVars>>

\* ---------------------------------------------------------------- workouts
\* the rows created so far in the meal, food entry and workout tables
RecordCount == Len(meals) + (nextFoodId - 1) + BagCardinality(workouts)

NoDate == -1

\* POST /api/workouts
CreateWorkout(caller, date) ==
  /\ BagCardinality(workouts) < MaxWorkouts
  /\ RecordCount < MaxRecords
  /\ IF caller = NoUser
       THEN /\ response' = Reply("createWorkout", 401)
            /\ UNCHANGED workouts
       ELSE /\ workouts' = workouts (+)
                 SetToBag({[userId |-> caller, date |-> IF date = NoDate THEN now ELSE date]})
            /\ response' = Reply("createWorkout", 201)
  /\ UNCHANGED <<clientVars, logVars, now, challenges, participations, inflight, mealVars>>

\* the server clock advances
Tick ==
  /\ now < MaxTime
  /\ now' = now + 1
  /\ UNCHANGED <<clientVars, logVars, challenges, participations, workouts, inflight, response, mealVars>>


\* ------------------------------------------------------------------- meals
\* Instants are counted in half days since 1970-01-01T00:00Z.
UnitsPerDay == 2

\* The dates a client sends for a meal or a workout: the two halves of
\* Saturday 1970-01-17; without a date the handler takes the clock.
RecordDates == {32, 33}

\* Request bodies offered to POST /api/meals/[id]/foods
FoodBodies ==
  { [quantity |-> 2, calories |-> 100, protein |-> 10, carbs |-> 20, fats |-> 5],
    [quantity |-> 1, calories |-> 50,  protein |-> 0,  carbs |-> 3,  fats |-> 1],
    [quantity |-> 0, calories |-> 70,  protein |-> 7,  carbs |-> 7,  fats |-> 7] }

\* include: { foodEntries: true }: the rows of a meal, here by ascending id
RECURSIVE EntriesInOrder(_)
EntriesInOrder(S) ==
  IF S = {} THEN <<>>
  ELSE LET last == CHOOSE e \in S : \A f \in S : f.id <= e.id
       IN Append(EntriesInOrder(S \ {last}), last)

FoodEntriesOf(mealId) == EntriesInOrder({ e \in foodEntries : e.mealId = mealId })

\* variant: the create is an upsert keyed by user and date, so a repeated
\* request finds the row of the first and adds nothing
CreateMeal_upsert(caller, date) ==
  /\ RecordCount < MaxRecords
  /\ IF caller = NoUser
       THEN /\ response' = Reply("createMeal", 401)
            /\ UNCHANGED meals
       ELSE /\ meals' =
                 IF \E i \in DOMAIN meals :
                      /\ meals[i].userId = caller
                      /\ meals[i].date = (IF date = NoDate THEN now ELSE date)
                   THEN meals
                   ELSE Append(meals,
                          [id |-> Len(meals) + 1,
                           userId |-> caller,
                           date |-> IF date = NoDate THEN now ELSE date,
                           totalCalories |-> 0,
                           totalProtein |-> 0,
                           totalCarbs |-> 0,
                           totalFats |-> 0])
            /\ response' = Reply("createMeal", 201)
  /\ UNCHANGED <<clientVars, logVars, now, workouts, challengeVars, foodEntries, nextFoodId>>

\* POST /api/meals
CreateMeal(caller, date) ==
  /\ RecordCount < MaxRecords
  /\ IF caller = NoUser
       THEN /\ response' = Reply("createMeal", 401)
            /\ UNCHANGED meals
       ELSE /\ meals' = Append(meals,
                 [id |-> Len(meals) + 1,
                  userId |-> caller,
                  date |-> IF date = NoDate THEN now ELSE date,
                  totalCalories |-> 0,
                  totalProtein |-> 0,
                  totalCarbs |-> 0,
                  totalFats |-> 0])
            /\ response' = Reply("createMeal", 201)
  /\ UNCHANGED <<clientVars, logVars, now, workouts, challengeVars, foodEntries, nextFoodId>>

\* prisma.meal.update({ where: { id }, data: { total*: { increment } } });
\* sign is 1 for increment and -1 for decrement
UpdateMealTotals(table, mealId, food, sign) ==
  [table EXCEPT
     ![mealId].totalCalories = @ + sign * (food.calories * food.quantity),
     ![mealId].totalProtein  = @ + sign * (food.protein * food.quantity),
     ![mealId].totalCarbs    = @ + sign * (food.carbs * food.quantity),
     ![mealId].totalFats     = @ + sign * (food.fats * food.quantity)]

\* POST /api/meals/[id]/foods
AddFood(caller, mealId, body) ==
  /\ RecordCount < MaxRecords
  /\ IF caller = NoUser
       THEN /\ response' = Reply("addFood", 401)
            /\ UNCHANGED mealVars
     ELSE IF ~(mealId \in DOMAIN meals /\ meals[mealId].userId = caller)
       THEN /\ response' = Reply("addFood", 404)
            /\ UNCHANGED mealVars
     ELSE IF ~IsPositive(body.quantity)
       THEN /\ response' = Reply("addFood", 400)
            /\ UNCHANGED mealVars
     ELSE /\ foodEntries' = foodEntries \cup
                 { [id |-> nextFoodId, mealId |-> mealId, quantity |-> body.quantity,
                    calories |-> body.calories, protein |-> body.protein,
                    carbs |-> body.carbs, fats |-> body.fats] }
          /\ nextFoodId' = nextFoodId + 1
          /\ meals' = UpdateMealTotals(meals, mealId, body, 1)
          /\ response' = Reply("addFood", 201)
  /\ UNCHANGED <<clientVars, logVars, now, workouts, challengeVars>>

\* DELETE /api/meals/[id]/foods?foodEntryId=...: mealId is the id of the
\* request path, foodEntry the row found by foodEntryId
DeleteFood(caller, mealId, foodEntryId) ==
  /\ LET found == { e \in foodEntries : e.id = foodEntryId } IN
     IF caller = NoUser
       THEN /\ response' = Reply("deleteFood", 401)
            /\ UNCHANGED mealVars
     ELSE IF found = {}
       THEN /\ response' = Reply("deleteFood", 404)
            /\ UNCHANGED mealVars
     ELSE LET foodEntry == CHOOSE e \in found : TRUE IN
       IF meals[foodEntry.mealId].userId # caller
         THEN /\ response' = Reply("deleteFood", 403)
              /\ UNCHANGED mealVars
       ELSE /\ foodEntries' = foodEntries \ {foodEntry}
            /\ UNCHANGED nextFoodId
            /\ IF mealId \in DOMAIN meals
                 THEN /\ meals' = UpdateMealTotals(meals, mealId, foodEntry, -1)
                      /\ response' = Reply("deleteFood", 200)
                 ELSE /\ UNCHANGED meals
                      /\ response' = Reply("deleteFood", 500)
  /\ UNCHANGED <<clientVars, logVars, now, workouts, challengeVars>>

\* ------------------------------------------------------------- aggregation
\* variant: the per-unit value is added without the quantity
RECURSIVE MealTotals_withoutQuantity(_)
MealTotals_withoutQuantity(entries) ==
  IF entries = <<>> THEN ZeroTotals
  ELSE LET acc == MealTotals_withoutQuantity(SubSeq(entries, 1, Len(entries) - 1))
           food == entries[Len(entries)]
       IN [calories |-> acc.calories + food.calories,
           protein  |-> acc.protein + food.protein,
           carbs    |-> acc.carbs + food.carbs,
           fats     |-> acc.fats + food.fats]

\* meal.foodEntries.reduce((acc, food) => ({ ... }), { calories: 0, ... })
RECURSIVE MealTotals(_)
MealTotals(entries) ==
  IF entries = <<>> THEN ZeroTotals
  ELSE LET acc == MealTotals(SubSeq(entries, 1, Len(entries) - 1))
           food == entries[Len(entries)]
       IN [calories |-> acc.calories + (food.calories * food.quantity),
           protein  |-> acc.protein + (food.protein * food.quantity),
           carbs    |-> acc.carbs + (food.carbs * food.quantity),
           fats     |-> acc.fats + (food.fats * food.quantity)]

\* existing.calories + mealTotals.calories, ... for the four macros
AddTotals(existing, mealTotals) ==
  [calories |-> existing.calories + mealTotals.calories,
   protein  |-> existing.protein + mealTotals.protein,
   carbs    |-> existing.carbs + mealTotals.carbs,
   fats     |-> existing.fats + mealTotals.fats]

\* date.toISOString().split('T')[0]: the UTC calendar day of an instant
DateKey(date) == date \div UnitsPerDay

\* A JavaScript Map is a sequence of [key, value] in insertion order.
MapHas(map, key) == \E i \in DOMAIN map : map[i].key = key

\* variant: the lookup never finds the key
MapGet_alwaysMisses(map, key, default) == default

\* map.get(key) || default
MapGet(map, key, default) ==
  IF MapHas(map, key)
    THEN map[CHOOSE i \in DOMAIN map : map[i].key = key].value
    ELSE default

\* map.set(key, value): a present key keeps its position
MapSet(map, key, value) ==
  IF MapHas(map, key)
    THEN [i \in DOMAIN map |-> IF map[i].key = key
                                 THEN [key |-> key, value |-> value] ELSE map[i]]
    ELSE Append(map, [key |-> key, value |-> value])

\* meals.forEach(meal => { ... nutritionByDate.set(dateKey, ...) })
RECURSIVE NutritionByDate(_)
NutritionByDate(fetched) ==
  IF fetched = <<>> THEN <<>>
  ELSE LET map == NutritionByDate(SubSeq(fetched, 1, Len(fetched) - 1))
           meal == fetched[Len(fetched)]
           dateKey == DateKey(meal.date)
           mealTotals == MealTotals(FoodEntriesOf(meal.id))
           existing == MapGet(map, dateKey, ZeroTotals)
       IN MapSet(map, dateKey, AddTotals(existing, mealTotals))

\* weekStart.setDate(weekStart.getDate() - weekStart.getDay()) in the server's
\* timezone (tz half days east of UTC; 1970-01-01 was a Thursday), then
\* weekStart.toISOString().split('T')[0]
WeekKey(date, tz) ==
  LET localDay == (date + tz) \div UnitsPerDay
      getDay == (localDay + 4) % 7
      weekStart == date - getDay * UnitsPerDay
  IN DateKey(weekStart)

\* workouts.forEach(workout => { ... workoutsByWeek.set(weekKey, ... + 1) })
RECURSIVE WorkoutsByWeek(_, _)
WorkoutsByWeek(fetched, tz) ==
  IF fetched = <<>> THEN <<>>
  ELSE LET map == WorkoutsByWeek(SubSeq(fetched, 1, Len(fetched) - 1), tz)
           weekKey == WeekKey(fetched[Len(fetched)].date, tz)
       IN MapSet(map, weekKey, MapGet(map, weekKey, 0) + 1)

\* where: { userId, date: { gte: startDate, lte: endDate } }
InRange(row, userId, startDate, endDate) ==
  row.userId = userId /\ row.date >= startDate /\ row.date <= endDate

\* orderBy: { date: 'asc' }: every order of the rows with ascending dates
OrderedByDate(B) ==
  { p \in FetchOrders(B) : \A i, j \in DOMAIN p : i < j => p[i].date <= p[j].date }

MealTable == SetToBag({ meals[i] : i \in DOMAIN meals })

\* Array.from(map.entries()).map(([date, totals]) => ({ date, ...totals }))
NutritionData(map) ==
  [i \in DOMAIN map |->
     [date |-> map[i].key, calories |-> map[i].value.calories,
      protein |-> map[i].value.protein, carbs |-> map[i].value.carbs,
      fats |-> map[i].value.fats]]

\* Array.from(workoutsByWeek.entries()).map(([week, count]) => ({ week, count }))
WorkoutData(map) ==
  [i \in DOMAIN map |-> [week |-> map[i].key, count |-> map[i].value]]

\* the server's timezone offsets, in half days east of UTC
TzOffsets == {-1, 0, 1}

\* the values of ?days= (30 when absent)
DaysDefault == 30
DaysParams == {3, DaysDefault}

\* GET /api/charts/progress?days=...
GetChartsProgress(caller, days, tz) ==
  /\ IF caller = NoUser
       THEN response' = Reply("charts", 401)
       ELSE LET endDate == now
                startDate == now - days * UnitsPerDay
            IN \E fetchedMeals \in OrderedByDate(RowsWhere(MealTable,
                      { m \in BagToSet(MealTable) : InRange(m, caller, startDate, endDate) })),
                  fetchedWorkouts \in OrderedByDate(RowsWhere(workouts,
                      { w \in BagToSet(workouts) : InRange(w, caller, startDate, endDate) })) :
                 response' = [Reply("charts", 200) EXCEPT
                    !.request = ReadRequest(caller, days, tz),
                    !.nutritionData = NutritionData(NutritionByDate(fetchedMeals)),
                    !.workoutData = WorkoutData(WorkoutsByWeek(fetchedWorkouts, tz))]
  /\ UNCHANGED <<clientVars, logVars, now, workouts, challengeVars, mealVars>>

\* todayMeals.reduce((acc, meal) => { ... }, { calories: 0, ... })
RECURSIVE TodayTotals(_)
TodayTotals(todayMeals) ==
  IF todayMeals = <<>> THEN ZeroTotals
  ELSE LET acc == TodayTotals(SubSeq(todayMeals, 1, Len(todayMeals) - 1))
           meal == todayMeals[Len(todayMeals)]
       IN AddTotals(acc, MealTotals(FoodEntriesOf(meal.id)))

\* getDashboardData(userId): all meals of the user, those whose UTC day is
\* today's, summed from their food entries
GetDashboard(caller) ==
  /\ IF caller = NoUser
       THEN response' = Reply("dashboard", 401)
       ELSE \E allMeals \in FetchOrders(RowsWhere(MealTable,
                { m \in BagToSet(MealTable) : m.userId = caller })) :
              LET todayMeals == SelectSeq(allMeals, LAMBDA m : DateKey(m.date) = DateKey(now))
              IN response' = [Reply("dashboard", 200) EXCEPT
                                !.request = ReadRequest(caller, 0, 0),
                                !.todayTotals = TodayTotals(todayMeals)]
  /\ UNCHANGED <<clientVars, logVars, now, workouts, challengeVars, mealVars>>

\* ---------------------------------------------------------------- averages
\* array.reduce((sum, d) => sum + d.field, 0)
RECURSIVE SumOfField(_, _)
SumOfField(seq, field) ==
  IF seq = <<>> THEN 0 ELSE seq[1][field] + SumOfField(Tail(seq), field)

\* Math.round(total / count) for count > 0: the nearest integer, a half
\* going up
RoundedQuotient(total, count) == (2 * total + count) \div (2 * count)

\* the calendar day of an instant on a clock tz half days east of UTC
LocalDay(date, tz) == (date + tz) \div UnitsPerDay

\* date.setHours(0, 0, 0, 0) in the server's timezone
StartOfLocalDay(date, tz) == LocalDay(date, tz) * UnitsPerDay - tz

\* date.setHours(23, 59, 59, 999) in the server's timezone: the last instant
\* of the clock's grid before the next local midnight
EndOfLocalDay(date, tz) == StartOfLocalDay(date, tz) + UnitsPerDay - 1

\* the body of POST /api/ai/nutrition-insights: both dates are optional
InsightsBodies ==
  { [startDate |-> NoDate, endDate |-> NoDate],
    [startDate |-> 40, endDate |-> NoDate] }

\* user.calorieGoal: not set, or set
CalorieGoals == {0, 2000}

\* the parameters of an insights request: the session user and its
\* calorieGoal, the body, the server's timezone and whether the call to the
\* language model succeeds
InsightsRequest(caller, calorieGoal, body, tz, modelAnswers) ==
  [caller |-> caller, calorieGoal |-> calorieGoal, body |-> body, tz |-> tz,
   modelAnswers |-> modelAnswers]

\* "Default to last 7 days"
InsightsEndDate(body, tz, t) ==
  EndOfLocalDay(IF body.endDate = NoDate THEN t ELSE body.endDate, tz)

InsightsStartDate(body, tz, t) ==
  LET endDate == IF body.endDate = NoDate THEN t ELSE body.endDate
  IN StartOfLocalDay(IF body.startDate = NoDate THEN endDate - 7 * UnitsPerDay
                                                 ELSE body.startDate, tz)

\* meals.forEach(meal => { ... dayData.totalCalories += meal.totalCalories ... }):
\* the stored totals of the fetched meals, per UTC day
RECURSIVE DailyData(_)
DailyData(fetched) ==
  IF fetched = <<>> THEN <<>>
  ELSE LET map == DailyData(SubSeq(fetched, 1, Len(fetched) - 1))
           meal == fetched[Len(fetched)]
           dateKey == DateKey(meal.date)
           dayData == MapGet(map, dateKey, ZeroTotals)
       IN MapSet(map, dateKey,
                 AddTotals(dayData, [calories |-> meal.totalCalories,
                                     protein  |-> meal.totalProtein,
                                     carbs    |-> meal.totalCarbs,
                                     fats     |-> meal.totalFats]))

\* Array.from(dailyData.values())
WeeklyData(map) == [i \in DOMAIN map |-> map[i].value]

\* variant: the sum is divided by the seven days of the default range
AvgDaily_perCalendarDay(weeklyData, macro) ==
  RoundedQuotient(SumOfField(weeklyData, macro), 7)

\* Math.round(weeklyData.reduce((sum, day) => sum + day.total, 0) / weeklyData.length)
AvgDaily(weeklyData, macro) ==
  RoundedQuotient(SumOfField(weeklyData, macro), Len(weeklyData))

\* stats: { daysAnalyzed: weeklyData.length, avgDailyCalories: ..., ... }
InsightsStats(weeklyData) ==
  [daysAnalyzed |-> Len(weeklyData),
   avgDailyCalories |-> AvgDaily(weeklyData, "calories"),
   avgDailyProtein |-> AvgDaily(weeklyData, "protein"),
   avgDailyCarbs |-> AvgDaily(weeklyData, "carbs"),
   avgDailyFats |-> AvgDaily(weeklyData, "fats")]

\* POST /api/ai/nutrition-insights
GetNutritionInsights(caller, calorieGoal, body, tz, modelAnswers) ==
  /\ LET request == InsightsRequest(caller, calorieGoal, body, tz, modelAnswers)
         startDate == InsightsStartDate(body, tz, now)
         endDate == InsightsEndDate(body, tz, now)
     IN IF caller = NoUser
          THEN response' = Reply("insights", 401)
        ELSE IF calorieGoal = 0
          THEN response' = [Reply("insights", 400) EXCEPT !.request = request]
        ELSE \E fetched \in OrderedByDate(RowsWhere(MealTable,
                    { m \in BagToSet(MealTable) : InRange(m, caller, startDate, endDate) })) :
               LET weeklyData == WeeklyData(DailyData(fetched)) IN
                 IF Len(weeklyData) = 0
                   THEN response' = [Reply("insights", 400) EXCEPT !.request = request]
                 ELSE IF ~modelAnswers
                   THEN response' = [Reply("insights", 500) EXCEPT !.request = request]
                 ELSE response' = [Reply("insights", 200) EXCEPT
                                     !.request = request,
                                     !.stats = InsightsStats(weeklyData)]
  /\ UNCHANGED <<clientVars, logVars, now, workouts, challengeVars, mealVars>>

\* ProgressChartsPage: nothing fetched yet
NoChartData == [loading |-> TRUE, avgCalories |-> 0, totalWorkouts |-> 0]

\* variant: the sum is divided by the days of the requested range
AvgCalories_perCalendarDay(data) ==
  IF Len(data.nutritionData) > 0
    THEN RoundedQuotient(SumOfField(data.nutritionData, "calories"), data.request.days)
    ELSE 0

\* Math.round(avgCalories), avgCalories being the sum of the buckets'
\* calories over data.nutritionData.length, or 0 without buckets
AvgCalories(data) ==
  IF Len(data.nutritionData) > 0
    THEN RoundedQuotient(SumOfField(data.nutritionData, "calories"), Len(data.nutritionData))
    ELSE 0

\* ProgressChartsPage: setData(chartData) with the answer of the charts
\* request, and the statistics computed from it for display
ShowProgressCharts ==
  /\ response.handler = "charts"
  /\ response.status = 200
  /\ chartsPage' = [loading |-> FALSE,
                    avgCalories |-> AvgCalories(response),
                    totalWorkouts |-> SumOfField(response.workoutData, "count")]
  /\ UNCHANGED <<now, challenges, participations, workouts, inflight, mealVars, logVars,
              response,
                 recorderVars>>


\* ------------------------------------------------------------ GPS recorder
\* Distances are in meters (the code's kilometers times MetersPerKm), the
\* fixes lie on one meridian and latitude is the distance north of the first.
MetersPerKm == 1000

\* position.coords.altitude is null when the receiver gives none
NoAltitude == -9999

\* The coordinates the position watch delivers.
GpsFixes ==
  { [latitude |-> 0,  longitude |-> 0, altitude |-> NoAltitude],
    [latitude |-> 4,  longitude |-> 0, altitude |-> 0],
    [latitude |-> 8,  longitude |-> 0, altitude |-> 10],
    [latitude |-> 20, longitude |-> 0, altitude |-> 30] }

ActivityTypes == {"running", "cycling"}

\* caloriesPerKm
CaloriesPerKm == [running |-> 60, cycling |-> 30]

\* calculateDistance (Haversine): on one meridian R * c is the length of the
\* arc between the two latitudes
CalculateDistance(lat1, lon1, lat2, lon2) ==
  IF lat2 >= lat1 THEN lat2 - lat1 ELSE lat1 - lat2

\* 0.005 km = 5 meters
NoiseThreshold == 5

\* a JavaScript value that counts as false where an altitude is tested:
\* undefined, null and 0
Falsy(altitude) == altitude = NoAltitude \/ altitude = 0

\* const newPos: Position = { lat, lng, altitude: coords.altitude || undefined }
NewPos(coords) ==
  [lat |-> coords.latitude,
   lng |-> coords.longitude,
   altitude |-> IF Falsy(coords.altitude) THEN NoAltitude ELSE coords.altitude]

\* what the watch callback adds to distance for newPos arriving after prev
AddedDistance(prev, newPos) ==
  IF Len(prev) > 0
    THEN LET lastPos == prev[Len(prev)]
             dist == CalculateDistance(lastPos.lat, lastPos.lng, newPos.lat, newPos.lng)
         IN IF dist > NoiseThreshold THEN dist ELSE 0
    ELSE 0

\* the distance the watch callback accumulates over a sequence of positions
\* received after setDistance(0)
RECURSIVE DistanceOver(_)
DistanceOver(received) ==
  IF received = <<>> THEN 0
  ELSE LET prev == SubSeq(received, 1, Len(received) - 1)
       IN DistanceOver(prev) + AddedDistance(prev, received[Len(received)])

\* a / b in JavaScript, as the fraction num / den; den = 0 stands for the
\* results Infinity and NaN
Ratio(num, den) == [num |-> num, den |-> den]

\* variant: the quotient is taken whatever the distance
Pace_unguarded(seconds, meters) == Ratio(seconds * MetersPerKm, 60 * meters)

\* duration > 0 && distance > 0 ? (duration / 60) / distance : 0, in
\* minutes per kilometer
Pace(seconds, meters) ==
  IF seconds > 0 /\ meters > 0
    THEN Ratio(seconds * MetersPerKm, 60 * meters)
    ELSE Ratio(0, 1)

\* const currentPace = ...
CurrentPace == Pace(duration, distance)

\* parseFloat(x.toFixed(2)) of a fraction, in hundredths; JSON has no
\* Infinity or NaN
ToFixed2(x) ==
  IF x.den = 0 THEN [finite |-> FALSE, hundredths |-> 0]
  ELSE [finite |-> TRUE, hundredths |-> RoundedQuotient(x.num * 100, x.den)]

\* positions.reduce((gain, pos, idx) => { ... }, 0)
RECURSIVE ElevationGain(_)
ElevationGain(route) ==
  IF route = <<>> THEN 0
  ELSE LET idx == Len(route) - 1
           pos == route[Len(route)]
           gain == ElevationGain(SubSeq(route, 1, Len(route) - 1))
       IN IF idx = 0 \/ Falsy(pos.altitude) \/ Falsy(route[idx].altitude) THEN gain
          ELSE LET diff == pos.altitude - route[idx].altitude
               IN IF diff > 0 THEN gain + diff ELSE gain

\* nothing posted yet
NoActivity == [posted |-> FALSE]

\* the body of POST /api/activities
ActivityBody(endTime) ==
  LET avgPace == Pace(duration, distance) IN
    [posted |-> TRUE,
     activityType |-> activityType,
     startTime |-> startTime,
     endTime |-> endTime,
     distance |-> ToFixed2(Ratio(distance, MetersPerKm)),
     duration |-> duration,
     avgPace |-> ToFixed2(avgPace),
     elevationGain |-> ElevationGain(positions),
     calories |-> RoundedQuotient(distance * CaloriesPerKm[activityType], MetersPerKm),
     routeData |-> [i \in DOMAIN positions |-> <<positions[i].lng, positions[i].lat>>],
     isPublic |-> FALSE]

\* <Select onValueChange={setActivityType}>, shown while not recording
SetActivityType(value) ==
  /\ ~isRecording
  /\ ~saveDialogOpen
  /\ activityType' = value
  /\ UNCHANGED <<isRecording, isPaused, positions, distance, duration, startTime,
                 saveDialogOpen, watching, ticking, reports, saved>>

\* variant: the distance of the previous recording is kept
StartRecording_keepsDistance ==
  /\ ~isRecording
  /\ ~saveDialogOpen
  /\ isRecording' = TRUE
  /\ isPaused' = FALSE
  /\ startTime' = now
  /\ positions' = <<>>
  /\ duration' = 0
  /\ watching' = TRUE
  /\ ticking' = TRUE
  /\ reports' = <<>>
  /\ saved' = NoActivity
  /\ UNCHANGED <<activityType, distance, saveDialogOpen>>

\* startRecording (the Start Recording button is shown while not recording)
StartRecording ==
  /\ ~isRecording
  /\ ~saveDialogOpen
  /\ isRecording' = TRUE
  /\ isPaused' = FALSE
  /\ startTime' = now
  /\ positions' = <<>>
  /\ distance' = 0
  /\ duration' = 0
  /\ watching' = TRUE
  /\ ticking' = TRUE
  /\ reports' = <<>>
  /\ saved' = NoActivity
  /\ UNCHANGED <<activityType, saveDialogOpen>>

\* the watchPosition success callback
OnPosition(coords) ==
  /\ watching
  /\ Len(positions) < MaxFixes
  /\ LET newPos == NewPos(coords) IN
       /\ positions' = Append(positions, newPos)
       /\ distance' = distance + AddedDistance(positions, newPos)
  /\ reports' = Append(reports, coords)
  /\ UNCHANGED <<activityType, isRecording, isPaused, duration, startTime,
                 saveDialogOpen, watching, ticking, saved>>

\* the setInterval callback: setDuration((d) => d + 1)
TimerTick ==
  /\ ticking
  /\ duration < MaxDuration
  /\ duration' = duration + 1
  /\ UNCHANGED <<activityType, isRecording, isPaused, positions, distance, startTime,
                 saveDialogOpen, watching, ticking, reports, saved>>

\* variant: the interval is not cleared
PauseRecording_keepsTimer ==
  /\ isRecording
  /\ ~isPaused
  /\ isPaused' = TRUE
  /\ UNCHANGED <<activityType, isRecording, positions, distance, duration, startTime,
                 saveDialogOpen, watching, ticking, reports, saved>>

\* pauseRecording (the Pause button is shown while recording and not paused)
PauseRecording ==
  /\ isRecording
  /\ ~isPaused
  /\ isPaused' = TRUE
  /\ ticking' = FALSE
  /\ UNCHANGED <<activityType, isRecording, positions, distance, duration, startTime,
                 saveDialogOpen, watching, reports, saved>>

\* resumeRecording (the Resume button is shown while paused)
ResumeRecording ==
  /\ isRecording
  /\ isPaused
  /\ isPaused' = FALSE
  /\ ticking' = TRUE
  /\ UNCHANGED <<activityType, isRecording, positions, distance, duration, startTime,
                 saveDialogOpen, watching, reports, saved>>

\* stopRecording (the Stop & Save button is shown while recording)
StopRecording ==
  /\ isRecording
  /\ watching' = FALSE
  /\ ticking' = FALSE
  /\ isRecording' = FALSE
  /\ isPaused' = FALSE
  /\ saveDialogOpen' = (Len(positions) > 0)
  /\ UNCHANGED <<activityType, positions, distance, duration, startTime, reports, saved>>

\* <Dialog onOpenChange={setSaveDialogOpen}>: the dialog is dismissed
CloseSaveDialog ==
  /\ saveDialogOpen
  /\ saveDialogOpen' = FALSE
  /\ UNCHANGED <<activityType, isRecording, isPaused, positions, distance, duration,
                 startTime, watching, ticking, reports, saved>>

\* saveActivity; with res.ok the router leaves the page, which is mounted
\* anew when the user comes back
SaveActivity(ok) ==
  /\ saveDialogOpen
  /\ IF Len(positions) = 0
       THEN UNCHANGED recorderVars
     ELSE /\ saved' = ActivityBody(now)
          /\ IF ok
               THEN /\ activityType' = "running"
                    /\ isRecording' = FALSE
                    /\ isPaused' = FALSE
                    /\ positions' = <<>>
                    /\ distance' = 0
                    /\ duration' = 0
                    /\ startTime' = NoDate
                    /\ saveDialogOpen' = FALSE
                    /\ watching' = FALSE
                    /\ ticking' = FALSE
                    /\ reports' = <<>>
               ELSE UNCHANGED <<activityType, isRecording, isPaused, positions, distance,
                                duration, startTime, saveDialogOpen, watching, ticking,
                                reports>>

\* ------------------------------------------------------- meals of one day
\* the values of ?date= : Saturday 1970-01-17, Sunday 1970-01-18, or absent
DateParams == {16, 17, NoDate}

\* GET /api/meals?date=YYYY-MM-DD: new Date(date) is the UTC midnight of the
\* day, setHours moves it to the bounds of the server's local day that holds
\* that instant; the meals come by createdAt, each with its food entries
GetMealsOfDay(caller, dateParam, tz) ==
  /\ IF caller = NoUser
       THEN response' = Reply("mealsOfDay", 401)
       ELSE LET date == IF dateParam = NoDate THEN DateKey(now) ELSE dateParam
                startOfDay == StartOfLocalDay(date * UnitsPerDay, tz)
                endOfDay == EndOfLocalDay(date * UnitsPerDay, tz)
                found == SelectSeq(meals, LAMBDA m :
                           /\ m.userId = caller
                           /\ m.date >= startOfDay
                           /\ m.date <= endOfDay)
            IN response' = [Reply("mealsOfDay", 200) EXCEPT
                              !.request = [caller |-> caller, date |-> date, tz |-> tz],
                              !.meals = [i \in DOMAIN found |->
                                           [meal |-> found[i],
                                            foodEntries |-> FoodEntriesOf(found[i].id)]]]
  /\ UNCHANGED <<clientVars, logVars, now, workouts, challengeVars, mealVars>>

\* ---------------------------------------- weight, measurements, activities
\* a request that names no record id (the query parameter is absent)
NoId == 0

\* findUnique({ where: { id } }) on a table held as a set of rows
FindById(table, id) == { row \in table : row.id = id }

\* POST /api/progress/weight
CreateWeightLog(caller, weight) ==
  /\ nextRowId <= MaxRecords
  /\ IF caller = NoUser
       THEN /\ response' = Reply("createWeightLog", 401)
            /\ UNCHANGED <<weightLogs, nextRowId>>
     ELSE IF ~IsPositive(weight)
       THEN /\ response' = Reply("createWeightLog", 400)
            /\ UNCHANGED <<weightLogs, nextRowId>>
     ELSE /\ weightLogs' = weightLogs \cup
                 { [id |-> nextRowId, userId |-> caller, weight |-> weight] }
          /\ nextRowId' = nextRowId + 1
          /\ response' = Reply("createWeightLog", 201)
  /\ UNCHANGED <<clientVars, now, challenges, participations, workouts, inflight, mealVars,
                 bodyMeasurements, activities, exercises>>

\* DELETE /api/progress/weight?logId=...
DeleteWeightLog(caller, logId) ==
  /\ LET weightLog == FindById(weightLogs, logId) IN
     IF caller = NoUser
       THEN /\ response' = Reply("deleteWeightLog", 401)
            /\ UNCHANGED weightLogs
     ELSE IF logId = NoId
       THEN /\ response' = Reply("deleteWeightLog", 400)
            /\ UNCHANGED weightLogs
     ELSE IF weightLog = {}
       THEN /\ response' = Reply("deleteWeightLog", 404)
            /\ UNCHANGED weightLogs
     ELSE IF \E row \in weightLog : row.userId # caller
       THEN /\ response' = Reply("deleteWeightLog", 403)
            /\ UNCHANGED weightLogs
     ELSE /\ weightLogs' = weightLogs \ weightLog
          /\ response' = Reply("deleteWeightLog", 200)
  /\ UNCHANGED <<clientVars, now, challenges, participations, workouts, inflight, mealVars,
                 bodyMeasurements, activities, exercises, nextRowId>>

\* POST /api/progress/measurements
CreateMeasurement(caller, waist) ==
  /\ nextRowId <= MaxRecords
  /\ IF caller = NoUser
       THEN /\ response' = Reply("createMeasurement", 401)
            /\ UNCHANGED <<bodyMeasurements, nextRowId>>
     ELSE IF waist = 0
       THEN /\ response' = Reply("createMeasurement", 400)
            /\ UNCHANGED <<bodyMeasurements, nextRowId>>
     ELSE /\ bodyMeasurements' = bodyMeasurements \cup
                 { [id |-> nextRowId, userId |-> caller, waist |-> waist] }
          /\ nextRowId' = nextRowId + 1
          /\ response' = Reply("createMeasurement", 201)
  /\ UNCHANGED <<clientVars, now, challenges, participations, workouts, inflight, mealVars,
                 weightLogs, activities, exercises>>

\* DELETE /api/progress/measurements?measurementId=...
DeleteMeasurement(caller, measurementId) ==
  /\ LET measurement == FindById(bodyMeasurements, measurementId) IN
     IF caller = NoUser
       THEN /\ response' = Reply("deleteMeasurement", 401)
            /\ UNCHANGED bodyMeasurements
     ELSE IF measurementId = NoId
       THEN /\ response' = Reply("deleteMeasurement", 400)
            /\ UNCHANGED bodyMeasurements
     ELSE IF measurement = {}
       THEN /\ response' = Reply("deleteMeasurement", 404)
            /\ UNCHANGED bodyMeasurements
     ELSE IF \E row \in measurement : row.userId # caller
       THEN /\ response' = Reply("deleteMeasurement", 403)
            /\ UNCHANGED bodyMeasurements
     ELSE /\ bodyMeasurements' = bodyMeasurements \ measurement
          /\ response' = Reply("deleteMeasurement", 200)
  /\ UNCHANGED <<clientVars, now, challenges, participations, workouts, inflight, mealVars,
                 weightLogs, activities, exercises, nextRowId>>

\* POST /api/activities
CreateActivity(caller, type) ==
  /\ nextRowId <= MaxRecords
  /\ IF caller = NoUser
       THEN /\ response' = Reply("createActivity", 401)
            /\ UNCHANGED <<activities, nextRowId>>
     ELSE IF type \notin {"running", "cycling", "walking", "hiking"}
       THEN /\ response' = Reply("createActivity", 400)
            /\ UNCHANGED <<activities, nextRowId>>
     ELSE /\ activities' = activities \cup
                 { [id |-> nextRowId, userId |-> caller, activityType |-> type] }
          /\ nextRowId' = nextRowId + 1
          /\ response' = Reply("createActivity", 201)
  /\ UNCHANGED <<clientVars, now, challenges, participations, workouts, inflight, mealVars,
                 weightLogs, bodyMeasurements, exercises>>

\* variant: the activity is looked up by its id alone
DeleteActivity_byIdAlone(caller, activityId) ==
  /\ LET activity == FindById(activities, activityId) IN
     IF caller = NoUser
       THEN /\ response' = Reply("deleteActivity", 401)
            /\ UNCHANGED activities
     ELSE IF activity = {}
       THEN /\ response' = Reply("deleteActivity", 404)
            /\ UNCHANGED activities
     ELSE /\ activities' = activities \ activity
          /\ response' = Reply("deleteActivity", 200)
  /\ UNCHANGED <<clientVars, now, challenges, participations, workouts, inflight, mealVars,
                 weightLogs, bodyMeasurements, exercises, nextRowId>>

\* DELETE /api/activities/[id]: findFirst({ where: { id, userId } })
DeleteActivity(caller, activityId) ==
  /\ LET activity == { row \in FindById(activities, activityId) : row.userId = caller } IN
     IF caller = NoUser
       THEN /\ response' = Reply("deleteActivity", 401)
            /\ UNCHANGED activities
     ELSE IF activity = {}
       THEN /\ response' = Reply("deleteActivity", 404)
            /\ UNCHANGED activities
     ELSE /\ activities' = activities \ activity
          /\ response' = Reply("deleteActivity", 200)
  /\ UNCHANGED <<clientVars, now, challenges, participations, workouts, inflight, mealVars,
                 weightLogs, bodyMeasurements, exercises, nextRowId>>

\* --------------------------------------------------------------- exercises
\* include: { exercises: true }: the exercises of a workout
ExercisesOf(workoutId) == { e \in exercises : e.workoutId = workoutId }

\* include: { workout: { select: { userId: true } } }: the users owning the
\* workout of an exercise (one, the workout row being there)
WorkoutUserIds(exercise) ==
  { w.userId : w \in { w \in BagToSet(workouts) : w.id = exercise.workoutId } }

\* POST /api/workouts/[id]/exercises
AddExercise(caller, workoutId, exerciseName) ==
  /\ nextRowId <= MaxRecords
  /\ LET workout == { w \in BagToSet(workouts) : w.id = workoutId /\ w.userId = caller } IN
     IF caller = NoUser
       THEN /\ response' = Reply("addExercise", 401)
            /\ UNCHANGED <<exercises, nextRowId>>
     ELSE IF workout = {}
       THEN /\ response' = Reply("addExercise", 404)
            /\ UNCHANGED <<exercises, nextRowId>>
     ELSE IF exerciseName = ""
       THEN /\ response' = Reply("addExercise", 400)
            /\ UNCHANGED <<exercises, nextRowId>>
     ELSE LET orderIndex == Cardinality(ExercisesOf(workoutId)) IN
          /\ exercises' = exercises \cup
                 { [id |-> nextRowId, workoutId |-> workoutId,
                    exerciseName |-> exerciseName, orderIndex |-> orderIndex] }
          /\ nextRowId' = nextRowId + 1
          /\ response' = Reply("addExercise", 201)
  /\ UNCHANGED <<clientVars, now, challenges, participations, workouts, inflight, mealVars,
                 weightLogs, bodyMeasurements, activities>>

\* DELETE /api/workouts/[id]/exercises?exerciseId=...: the workout of the
\* path is only read back for the answer
DeleteExercise(caller, exerciseId) ==
  /\ LET exercise == FindById(exercises, exerciseId) IN
     IF caller = NoUser
       THEN /\ response' = Reply("deleteExercise", 401)
            /\ UNCHANGED exercises
     ELSE IF exerciseId = NoId
       THEN /\ response' = Reply("deleteExercise", 400)
            /\ UNCHANGED exercises
     ELSE IF exercise = {}
       THEN /\ response' = Reply("deleteExercise", 404)
            /\ UNCHANGED exercises
     ELSE IF \E row \in exercise : WorkoutUserIds(row) # {caller}
       THEN /\ response' = Reply("deleteExercise", 403)
            /\ UNCHANGED exercises
     ELSE /\ exercises' = exercises \ exercise
          /\ response' = Reply("deleteExercise", 200)
  /\ UNCHANGED <<clientVars, now, challenges, participations, workouts, inflight, mealVars,
                 weightLogs, bodyMeasurements, activities, nextRowId>>

\* ---------------------------------------------------------- specifications
\* RecordActivityPage as mounted: the initial values of its hooks
RecorderMounted ==
  /\ activityType = "running"
  /\ isRecording = FALSE
  /\ isPaused = FALSE
  /\ positions = <<>>
  /\ distance = 0
  /\ duration = 0
  /\ startTime = NoDate
  /\ saveDialogOpen = FALSE
  /\ watching = FALSE
  /\ ticking = FALSE
  /\ reports = <<>>
  /\ saved = NoActivity

\* no weight log, measurement, activity or exercise has been stored
NoLogs ==
  /\ weightLogs = {}
  /\ bodyMeasurements = {}
  /\ activities = {}
  /\ exercises = {}
  /\ nextRowId = 1

ChallengeIds == 1..MaxChallenges

Init ==
  /\ now = 0
  /\ challenges = <<>>
  /\ participations = EmptyBag
  /\ workouts = EmptyBag
  /\ inflight = EmptyBag
  /\ meals = <<>>
  /\ foodEntries = {}
  /\ nextFoodId = 1
  /\ response = Reply("none", NoResponse)
  /\ chartsPage = NoChartData
  /\ RecorderMounted
  /\ NoLogs

\* Concurrent requests: the challenge handlers interleave at their awaits.
CreateChallengeStep == \E u \in Callers, b \in ChallengeBodies : CreateChallenge(u, b)
AutoJoinStep == \E req \in BagToSet(inflight) : AutoJoinCreator(req)
JoinCheckStep == \E u \in Callers, c \in ChallengeIds : JoinCheck(u, c)
JoinCreateStep == \E req \in BagToSet(inflight) : JoinCreate(req)
LeaveStep == \E u \in Callers, c \in ChallengeIds : LeaveChallenge(u, c)
GetLeaderboardStep == \E u \in Callers, c \in ChallengeIds : GetLeaderboard(u, c)
CreateWorkoutStep == \E u \in Callers, d \in WorkoutDates \cup {NoDate} : CreateWorkout(u, d)

Next ==
  \/ Tick
  \/ CreateChallengeStep
  \/ AutoJoinStep
  \/ JoinCheckStep
  \/ JoinCreateStep
  \/ LeaveStep

Spec == Init /\ [][Next]_vars

\* One request at a time: a request starts only when none is suspended.
Quiescent == inflight = EmptyBag

NextLeaderboard ==
  \/ Tick
  \/ Quiescent /\ CreateChallengeStep
  \/ AutoJoinStep
  \/ Quiescent /\ JoinCheckStep
  \/ JoinCreateStep
  \/ Quiescent /\ LeaveStep
  \/ Quiescent /\ GetLeaderboardStep

SpecLeaderboard == Init /\ [][NextLeaderboard]_vars

\* The same, with workouts being logged between the requests.
NextProgress ==
  \/ NextLeaderboard
  \/ Quiescent /\ CreateWorkoutStep

SpecProgress == Init /\ [][NextProgress]_vars


\* Meals, food entries and workouts being logged and charted, one request at
\* a time, on Wednesday 1970-01-21.
InitNutrition ==
  /\ now = 40
  /\ challenges = <<>>
  /\ participations = EmptyBag
  /\ workouts = EmptyBag
  /\ inflight = EmptyBag
  /\ meals = <<>>
  /\ foodEntries = {}
  /\ nextFoodId = 1
  /\ response = Reply("none", NoResponse)
  /\ chartsPage = NoChartData
  /\ RecorderMounted
  /\ NoLogs

\* the ids a client sends: those handed out so far and one that is unknown
MealIdsSent == 1..(Len(meals) + 1)
FoodEntryIdsSent == 1..nextFoodId

\* The requests sent: every combination of parameters by a signed-in user,
\* and one request without a session per handler.
CreateMealRequests ==
  (Users \X (RecordDates \cup {NoDate})) \cup {<<NoUser, NoDate>>}
AddFoodRequests ==
  (Users \X MealIdsSent \X FoodBodies) \cup
    {<<NoUser, 1, [quantity |-> 1, calories |-> 50, protein |-> 0, carbs |-> 3, fats |-> 1]>>}
DeleteFoodRequests ==
  (Users \X MealIdsSent \X FoodEntryIdsSent) \cup {<<NoUser, 1, 1>>}
LogWorkoutRequests ==
  (Users \X (RecordDates \cup {NoDate})) \cup {<<NoUser, NoDate>>}
ChartsRequests ==
  (Users \X DaysParams \X TzOffsets) \cup {<<NoUser, DaysDefault, 0>>}

CreateMealStep == \E q \in CreateMealRequests : CreateMeal(q[1], q[2])
AddFoodStep == \E q \in AddFoodRequests : AddFood(q[1], q[2], q[3])
DeleteFoodStep == \E q \in DeleteFoodRequests : DeleteFood(q[1], q[2], q[3])
LogWorkoutStep == \E q \in LogWorkoutRequests : CreateWorkout(q[1], q[2])
GetChartsProgressStep == \E q \in ChartsRequests : GetChartsProgress(q[1], q[2], q[3])
GetDashboardStep == \E u \in Callers : GetDashboard(u)

\* The insights requests sent: every body by every signed-in user with a
\* calorie goal, and one request each off UTC, without a session, without a
\* calorie goal and with the language model failing.
InsightsRequests ==
  (Users \X {2000} \X InsightsBodies \X {0} \X {TRUE}) \cup
    { <<"alice", 2000, [startDate |-> 40, endDate |-> NoDate], -1, TRUE>>,
      <<"alice", 2000, [startDate |-> 40, endDate |-> NoDate], 1, TRUE>>,
      <<NoUser, 2000, [startDate |-> NoDate, endDate |-> NoDate], 0, TRUE>>,
      <<"alice", 0, [startDate |-> NoDate, endDate |-> NoDate], 0, TRUE>>,
      <<"alice", 2000, [startDate |-> NoDate, endDate |-> NoDate], 0, FALSE>> }

GetNutritionInsightsStep ==
  \E q \in InsightsRequests : GetNutritionInsights(q[1], q[2], q[3], q[4], q[5])

\* Meals and their food entries being edited.
NextMeals ==
  \/ CreateMealStep
  \/ AddFoodStep
  \/ DeleteFoodStep

SpecMeals == InitNutrition /\ [][NextMeals]_vars

\* Meals, food entries and workouts being logged, and the charts and the
\* dashboard being read.
NextNutrition ==
  \/ CreateMealStep
  \/ AddFoodStep
  \/ LogWorkoutStep
  \/ GetChartsProgressStep
  \/ GetDashboardStep

SpecNutrition == InitNutrition /\ [][NextNutrition]_vars

\* ProgressChartsPage fetchChartData: fetch(`/api/charts/progress?days=${timeRange}`)
\* by a signed-in user, the server running on UTC
FetchChartDataStep == \E u \in Users, days \in DaysParams : GetChartsProgress(u, days, 0)

\* Meals and food entries being logged, the insights being asked for and the
\* progress charts page fetching and showing its data.
NextInsights ==
  \/ CreateMealStep
  \/ AddFoodStep
  \/ GetNutritionInsightsStep
  \/ FetchChartDataStep
  \/ ShowProgressCharts

SpecInsights == InitNutrition /\ [][NextInsights]_vars

\* Challenges being created, meals being created without a date and food
\* being added to them, valid and not, one request at a time.
CreateMealNowStep == \E u \in Callers : CreateMeal(u, NoDate)

NextValidation ==
  \/ Quiescent /\ CreateChallengeStep
  \/ AutoJoinStep
  \/ CreateMealNowStep
  \/ AddFoodStep

SpecValidation == Init /\ [][NextValidation]_vars

\* The GPS recorder: the user's clicks, the timer and the position watch.
StoreUntouched ==
  UNCHANGED <<now, challenges, participations, workouts, inflight, mealVars, logVars,
              response,
              chartsPage>>

SetActivityTypeStep == \E value \in ActivityTypes : SetActivityType(value)
OnPositionStep == \E coords \in GpsFixes : OnPosition(coords)
SaveActivityStep == \E ok \in BOOLEAN : SaveActivity(ok)

NextRecorder ==
  \/ SetActivityTypeStep /\ StoreUntouched
  \/ StartRecording /\ StoreUntouched
  \/ OnPositionStep /\ StoreUntouched
  \/ TimerTick /\ StoreUntouched
  \/ PauseRecording /\ StoreUntouched
  \/ ResumeRecording /\ StoreUntouched
  \/ StopRecording /\ StoreUntouched
  \/ CloseSaveDialog /\ StoreUntouched
  \/ SaveActivityStep /\ StoreUntouched

SpecRecorder == Init /\ [][NextRecorder]_vars

\* Leaderboard reads running among the concurrent challenge requests, within
\* one instant of the clock.
LeaderboardLookupStep == \E u \in Callers, c \in ChallengeIds : LeaderboardLookup(u, c)
LeaderboardFetchStep == \E req \in BagToSet(inflight) : LeaderboardFetch(req)

NextReads ==
  \/ CreateChallengeStep
  \/ AutoJoinStep
  \/ JoinCheckStep
  \/ JoinCreateStep
  \/ LeaderboardLookupStep
  \/ LeaderboardFetchStep

SpecReads == Init /\ [][NextReads]_vars

\* Meals being created and the meals of a day being listed.
GetMealsOfDayStep ==
  \E q \in (Users \X DateParams \X TzOffsets) \cup {<<NoUser, NoDate, 0>>} :
    GetMealsOfDay(q[1], q[2], q[3])

NextMealsOfDay ==
  \/ CreateMealStep
  \/ GetMealsOfDayStep

SpecMealsOfDay == InitNutrition /\ [][NextMealsOfDay]_vars

\* Weight logs, measurements, activities and exercises being created and
\* deleted, one request at a time.  Two workouts have been logged, one by
\* each user; their rows carry the id the exercise handlers select by.
InitRecords ==
  /\ now = 0
  /\ challenges = <<>>
  /\ participations = EmptyBag
  /\ workouts = SetToBag({ [id |-> 1, userId |-> "alice", date |-> 0],
                           [id |-> 2, userId |-> "bob", date |-> 0] })
  /\ inflight = EmptyBag
  /\ meals = <<>>
  /\ foodEntries = {}
  /\ nextFoodId = 1
  /\ response = Reply("none", NoResponse)
  /\ chartsPage = NoChartData
  /\ RecorderMounted
  /\ NoLogs

\* the record ids sent: those given out so far, the next one, or none
RowIdsSent == (1..nextRowId) \cup {NoId}

\* The requests sent to the exercise handlers: every combination of
\* parameters by a signed-in user (the name '' fails the schema), and one
\* request without a session per handler.
AddExerciseStep ==
  \E q \in (Users \X {1, 2} \X {"squat", ""}) \cup {<<NoUser, 1, "squat">>} :
    AddExercise(q[1], q[2], q[3])
DeleteExerciseStep ==
  \E q \in (Users \X RowIdsSent) \cup {<<NoUser, 1>>} : DeleteExercise(q[1], q[2])

\* The same for the other three tables: weight 0, waist 0 and the type
\* 'swimming' are the bodies the handlers refuse.  At most MaxLogs rows are
\* created in the four tables together.
NextRecords ==
  \/ /\ nextRowId <= MaxLogs
     /\ \E q \in (Users \X {70, 0}) \cup {<<NoUser, 70>>} : CreateWeightLog(q[1], q[2])
  \/ \E q \in (Users \X RowIdsSent) \cup {<<NoUser, 1>>} : DeleteWeightLog(q[1], q[2])
  \/ /\ nextRowId <= MaxLogs
     /\ \E q \in (Users \X {80, 0}) \cup {<<NoUser, 80>>} : CreateMeasurement(q[1], q[2])
  \/ \E q \in (Users \X RowIdsSent) \cup {<<NoUser, 1>>} : DeleteMeasurement(q[1], q[2])
  \/ /\ nextRowId <= MaxLogs
     /\ \E q \in (Users \X {"running", "swimming"}) \cup {<<NoUser, "running">>} :
          CreateActivity(q[1], q[2])
  \/ \E q \in (Users \X RowIdsSent) \cup {<<NoUser, 1>>} : DeleteActivity(q[1], q[2])
  \/ nextRowId <= MaxLogs /\ AddExerciseStep
  \/ DeleteExerciseStep

SpecRecords == InitRecords /\ [][NextRecords]_vars

\* Exercises alone being added to and deleted from the two workouts.
NextExercises ==
  \/ AddExerciseStep
  \/ DeleteExerciseStep

SpecExercises == InitRecords /\ [][NextExercises]_vars

\* One request at a time, with a store that may reject the auto-join insert.
NextStoreFailure ==
  \/ NextLeaderboard
  \/ \E req \in BagToSet(inflight) : AutoJoinRejected(req)

SpecStoreFailure == Init /\ [][NextStoreFailure]_vars

\* ------------------------------------------------------- leaderboard claims
LeaderboardAnswered == response.handler = "leaderboard" /\ response.status = 200

\* C1: a leaderboard answer has one entry per stored participation of the
\* challenge, and the ranks of its N entries are exactly 1..N, each once.
C1_RanksAreOneToN ==
  LeaderboardAnswered =>
    LET lb == response.leaderboard IN
      /\ Len(lb) = BagCardinality(ParticipantsOf(participations, response.challengeId))
      /\ { lb[i].rank : i \in DOMAIN lb } = 1..Len(lb)
      /\ \A i, j \in DOMAIN lb : lb[i].rank = lb[j].rank => i = j

C1_Witness ==
  LeaderboardAnswered /\ Len(response.leaderboard) = 2

\* C2: the leaderboard is listed by descending progress, and among entries
\* of equal progress the earlier joinedAt comes first with the smaller rank,
\* whatever order the store returned the rows in.
C2_SortedByProgressThenJoinedAt ==
  LeaderboardAnswered =>
    LET lb == response.leaderboard IN
      \A i, j \in DOMAIN lb :
        i < j =>
          /\ lb[i].progress >= lb[j].progress
          /\ lb[i].progress = lb[j].progress =>
               (lb[i].joinedAt <= lb[j].joinedAt /\ lb[i].rank < lb[j].rank)

\* C3: for a workout_count challenge every entry's progress is the number
\* of that user's workouts dated inside the challenge window; a participant
\* without such a workout has progress 0, is not completed and is listed
\* after every participant that has one.
C3_ProgressFromHistory ==
  (LeaderboardAnswered /\ challenges[response.challengeId].challengeType = "workout_count") =>
    LET lb == response.leaderboard
        ch == challenges[response.challengeId]
        count(u) == BagCardinality(RowsWhere(workouts, { w \in BagToSet(workouts) :
                       /\ w.userId = u
                       /\ w.date >= ch.startDate
                       /\ w.date <= ch.endDate }))
    IN \A i \in DOMAIN lb :
         /\ lb[i].progress = count(lb[i].userId)
         /\ count(lb[i].userId) = 0 =>
              /\ lb[i].isCompleted = FALSE
              /\ \A j \in DOMAIN lb : count(lb[j].userId) > 0 => lb[j].rank < lb[i].rank

C6_EmptyLeaderboardIsSuccess ==
  [][\A u \in Users, c \in ChallengeIds :
        ( /\ Quiescent
          /\ GetLeaderboard(u, c)
          /\ c \in DOMAIN challenges
          /\ ParticipantsOf(participations, c) = EmptyBag )
        => (response'.status = 200 /\ response'.leaderboard = <<>>)]_vars

C6_Witness ==
  /\ LeaderboardAnswered
  /\ response.leaderboard = <<>>
  /\ response.challengeId \in DOMAIN challenges
  /\ ParticipantsOf(participations, response.challengeId) = EmptyBag

\* ------------------------------------------------------- membership claims
\* C7: under every interleaving of create, join and leave requests there is
\* at most one participation row per (userId, challengeId).
C7_OneParticipationPerUserAndChallenge ==
  \A u \in Users, c \in ChallengeIds :
    BagCardinality(RowsWhere(participations,
        { p \in BagToSet(participations) : p.userId = u /\ p.challengeId = c })) <= 1

\* two joins of one user passed the lookup, one inserted, the other was refused
C7_Witness ==
  /\ response.handler = "join"
  /\ response.status = 500
  /\ participations # EmptyBag

\* ---------------------------------------------------------- nutrition claims
Macros == {"calories", "protein", "carbs", "fats"}

\* the sum of quantity x per-unit value of one macro over a set of food entries
RECURSIVE SumOfEntries(_, _)
SumOfEntries(S, macro) ==
  IF S = {} THEN 0
  ELSE LET e == CHOOSE x \in S : TRUE
       IN e.quantity * e[macro] + SumOfEntries(S \ {e}, macro)

\* C8: every meal's stored totals are the sums of quantity x per-unit value
\* over the food entries that currently belong to the meal.
C8_StoredTotalsMatchEntries ==
  \A m \in DOMAIN meals :
    LET own == { e \in foodEntries : e.mealId = m } IN
      /\ meals[m].totalCalories = SumOfEntries(own, "calories")
      /\ meals[m].totalProtein = SumOfEntries(own, "protein")
      /\ meals[m].totalCarbs = SumOfEntries(own, "carbs")
      /\ meals[m].totalFats = SumOfEntries(own, "fats")

ChartsAnswered == response.handler = "charts" /\ response.status = 200
DashboardAnswered == response.handler = "dashboard" /\ response.status = 200

\* the meals the answered charts request fetched: those of its user dated
\* within its range
ChartMeals ==
  { i \in DOMAIN meals :
      InRange(meals[i], response.request.caller,
              now - response.request.days * UnitsPerDay, now) }

\* C9: the totals the dashboard and the charts recompute are, for each of
\* the four macros, the sum of quantity x per-unit value over the food
\* entries of the meals they cover.
C9_TotalsAreSumsOfLineItems ==
  /\ DashboardAnswered =>
       \A macro \in Macros :
         response.todayTotals[macro] =
           SumOfEntries({ e \in foodEntries :
                            /\ meals[e.mealId].userId = response.request.caller
                            /\ DateKey(meals[e.mealId].date) = DateKey(now) }, macro)
  /\ ChartsAnswered =>
       \A i \in DOMAIN response.nutritionData, macro \in Macros :
         response.nutritionData[i][macro] =
           SumOfEntries({ e \in foodEntries :
                            /\ e.mealId \in ChartMeals
                            /\ DateKey(meals[e.mealId].date) =
                                 response.nutritionData[i].date }, macro)

\* the meal with entries {quantity 2, calories 100} and {quantity 1,
\* calories 50} charted as 250 calories
C9_Witness ==
  /\ ChartsAnswered
  /\ Len(meals) = 1
  /\ { [quantity |-> e.quantity, calories |-> e.calories] : e \in foodEntries } =
       { [quantity |-> 2, calories |-> 100], [quantity |-> 1, calories |-> 50] }
  /\ Len(response.nutritionData) = 1
  /\ response.nutritionData[1].calories = 250
  /\ response.nutritionData[1].protein = 20

\* C10: the day buckets of a charts answer add up, per macro, to the sum
\* over the food entries of all fetched meals, the weekly counts add up to
\* the number of fetched workouts, and the buckets are exactly the days
\* (weeks) of the fetched meals (workouts), one bucket each.
C10_BucketsPartitionTheRecords ==
  ChartsAnswered =>
    LET nutritionData == response.nutritionData
        workoutData == response.workoutData
        fetchedWorkouts == RowsWhere(workouts,
            { w \in BagToSet(workouts) :
                InRange(w, response.request.caller,
                        now - response.request.days * UnitsPerDay, now) })
    IN /\ \A macro \in Macros :
            SumOfField(nutritionData, macro) =
              SumOfEntries({ e \in foodEntries : e.mealId \in ChartMeals }, macro)
       /\ SumOfField(workoutData, "count") = BagCardinality(fetchedWorkouts)
       /\ { nutritionData[i].date : i \in DOMAIN nutritionData } =
            { DateKey(meals[m].date) : m \in ChartMeals }
       /\ \A i, j \in DOMAIN nutritionData :
            nutritionData[i].date = nutritionData[j].date => i = j
       /\ { workoutData[i].week : i \in DOMAIN workoutData } =
            { WeekKey(w.date, response.request.tz) : w \in BagToSet(fetchedWorkouts) }
       /\ \A i, j \in DOMAIN workoutData :
            workoutData[i].week = workoutData[j].week => i = j
       /\ \A i \in DOMAIN workoutData : workoutData[i].count >= 1

\* two meals of one day, one of them with a food entry, charted in one bucket
C10_Witness ==
  /\ ChartsAnswered
  /\ Len(meals) = 2
  /\ meals[1].userId = meals[2].userId
  /\ meals[1].date # meals[2].date
  /\ DateKey(meals[1].date) = DateKey(meals[2].date)
  /\ foodEntries # {}
  /\ Len(response.nutritionData) = 1
  /\ response.nutritionData[1].date = DateKey(meals[1].date)
  /\ response.nutritionData[1].calories > 0

\* ------------------------------------------------------------- week claims
\* the workouts the answered charts request fetched
ChartWorkouts ==
  { w \in BagToSet(workouts) :
      InRange(w, response.request.caller,
              now - response.request.days * UnitsPerDay, now) }

\* the day of the week of a calendar day (0 is Sunday; day 0 was a Thursday)
DayOfWeek(day) == (day + 4) % 7

\* the Sunday that begins the Sunday-to-Saturday week of a calendar day
SundayOf(day) == day - DayOfWeek(day)

\* C11: the week key of every charted workout is the date of the Sunday that
\* begins the week of the workout's date (on the UTC or on the server's
\* calendar), every week bucket is keyed by a Sunday, and two workouts of
\* one Sunday-to-Saturday week (on both calendars) have the same key,
\* whatever the time of day and the server's timezone offset.
C11_WeekKeyIsTheSundayOfTheWeek ==
  ChartsAnswered =>
    LET tz == response.request.tz IN
      /\ \A i \in DOMAIN response.workoutData :
           DayOfWeek(response.workoutData[i].week) = 0
      /\ \A w \in ChartWorkouts :
           WeekKey(w.date, tz) \in { SundayOf(DateKey(w.date)), SundayOf(LocalDay(w.date, tz)) }
      /\ \A w1, w2 \in ChartWorkouts :
           ( /\ SundayOf(DateKey(w1.date)) = SundayOf(DateKey(w2.date))
             /\ SundayOf(LocalDay(w1.date, tz)) = SundayOf(LocalDay(w2.date, tz)) )
           => WeekKey(w1.date, tz) = WeekKey(w2.date, tz)

\* C12: the day buckets and the week buckets of a charts answer are in
\* strictly ascending order of their keys, for every set of fetched records
\* and every server timezone offset.
C12_BucketsAscendByKey ==
  ChartsAnswered =>
    /\ \A i, j \in DOMAIN response.nutritionData :
         i < j => response.nutritionData[i].date < response.nutritionData[j].date
    /\ \A i, j \in DOMAIN response.workoutData :
         i < j => response.workoutData[i].week < response.workoutData[j].week

\* ---------------------------------------------------------- average claims
InsightsAnswered == response.handler = "insights" /\ response.status = 200

\* the meals the answered insights request fetched
InsightsMeals ==
  { i \in DOMAIN meals :
      InRange(meals[i], response.request.caller,
              InsightsStartDate(response.request.body, response.request.tz, now),
              InsightsEndDate(response.request.body, response.request.tz, now)) }

\* the sum of a stored total over a set of meals
RECURSIVE SumOfStored(_, _)
SumOfStored(ids, field) ==
  IF ids = {} THEN 0
  ELSE LET i == CHOOSE x \in ids : TRUE
       IN meals[i][field] + SumOfStored(ids \ {i}, field)

\* the days that have at least one of the meals
DaysWithMeals(ids) == { DateKey(meals[i].date) : i \in ids }

\* avg is total / days rounded to the nearest integer (a half going up)
IsRoundedAverage(avg, total, days) ==
  /\ days > 0
  /\ 2 * days * avg - days <= 2 * total
  /\ 2 * total < 2 * days * avg + days

\* C13: the average-per-day totals of an insights answer are the summed
\* totals of the fetched meals over the number of distinct days that have a
\* meal, and the average calories the progress charts page shows are the
\* summed calories of the charted meals over the number of days that have a
\* meal (rounded for display); days without a meal are not counted.
C13_AveragePerDayWithMeals ==
  /\ [](InsightsAnswered =>
          LET days == Cardinality(DaysWithMeals(InsightsMeals))
              stats == response.stats
          IN /\ stats.daysAnalyzed = days
             /\ IsRoundedAverage(stats.avgDailyCalories,
                                 SumOfStored(InsightsMeals, "totalCalories"), days)
             /\ IsRoundedAverage(stats.avgDailyProtein,
                                 SumOfStored(InsightsMeals, "totalProtein"), days)
             /\ IsRoundedAverage(stats.avgDailyCarbs,
                                 SumOfStored(InsightsMeals, "totalCarbs"), days)
             /\ IsRoundedAverage(stats.avgDailyFats,
                                 SumOfStored(InsightsMeals, "totalFats"), days))
  /\ [][ShowProgressCharts =>
          LET days == Cardinality(DaysWithMeals(ChartMeals))
              total == SumOfEntries({ e \in foodEntries : e.mealId \in ChartMeals },
                                    "calories")
          IN IF days = 0 THEN chartsPage'.avgCalories = 0
             ELSE IsRoundedAverage(chartsPage'.avgCalories, total, days)]_vars

\* two meals on two days of the last week, 50 calories in all: 25 a day in
\* the insights answer and on the page, the other days of the range empty
C13_Witness ==
  /\ InsightsAnswered
  /\ response.request.body.startDate = NoDate
  /\ response.stats.daysAnalyzed = 2
  /\ response.stats.avgDailyCalories = 25
  /\ ~chartsPage.loading
  /\ chartsPage.avgCalories = 25

\* C14: a signed-in user (with a calorie goal) who has no meal in the
\* requested range gets a success status and zero statistics from the
\* insights endpoint, and one without meals and workouts in the range gets
\* a success status and empty arrays from the charts endpoint.
C14_EmptyRangeIsSuccess ==
  /\ ( /\ response.handler = "insights"
       /\ response.request.caller \in Users
       /\ response.request.calorieGoal # 0
       /\ InsightsMeals = {} )
     => (response.status = 200 /\ response.stats = ZeroStats)
  /\ ( /\ response.handler = "charts"
       /\ response.request.caller \in Users
       /\ ChartMeals = {}
       /\ ChartWorkouts = {} )
     => ( /\ response.status = 200
          /\ response.nutritionData = <<>>
          /\ response.workoutData = <<>> )

\* ---------------------------------------------------------- recorder claims
\* a sequence without its i-th element
RemoveAt(seq, i) == SubSeq(seq, 1, i - 1) \o SubSeq(seq, i + 1, Len(seq))

\* C15: a received fix that lies within 5 meters of its predecessor does not
\* change the accumulated distance: the distance is what the recorder
\* accumulates over the same fixes without that one.
C15_NoiseFixLeavesDistance ==
  \A i \in 2..Len(positions) :
    CalculateDistance(positions[i - 1].lat, positions[i - 1].lng,
                      positions[i].lat, positions[i].lng) <= NoiseThreshold
      => distance = DistanceOver(RemoveAt(positions, i))

\* C16: duration grows only by one, only in a timer tick, and only while
\* recording and not paused; it does not grow while paused or after stop,
\* and a GPS fix leaves it as it is.
C16_DurationOnlyOnActiveTicks ==
  [][ /\ duration' > duration =>
           (duration' = duration + 1 /\ TimerTick /\ isRecording /\ ~isPaused)
      /\ (~isRecording \/ isPaused) => duration' <= duration
      /\ OnPositionStep => duration' = duration ]_vars

\* paused after one counted second, with fixes received
C16_Witness ==
  /\ isRecording
  /\ isPaused
  /\ duration = 1
  /\ Len(positions) = 2

\* C17: the accumulated distance is 0 as long as fewer than 2 fixes have
\* been received in the recording.
C17_NoDistanceBeforeTwoFixes ==
  Len(positions) < 2 => distance = 0

C17_Witness ==
  /\ isRecording
  /\ Len(positions) = 1
  /\ positions[1].lat = 20
  /\ duration = 1
  /\ distance = 0

\* C18: the pace shown and the avgPace saved are (duration / 60) / distance
\* when distance > 0 and 0 otherwise, and never the result of a division by
\* zero.
C18_PaceNeverDividesByZero ==
  /\ []((isRecording \/ saveDialogOpen) =>
        LET pace == CurrentPace IN
          /\ pace.den # 0
          /\ distance > 0 => pace.num * 60 * distance = pace.den * duration * MetersPerKm
          /\ distance = 0 => pace.num = 0)
  /\ [][(SaveActivityStep /\ Len(positions) > 0) =>
          /\ saved'.avgPace.finite
          /\ distance > 0 =>
               IsRoundedAverage(saved'.avgPace.hundredths,
                                duration * MetersPerKm * 100, 60 * distance)
          /\ distance = 0 => saved'.avgPace.hundredths = 0]_vars

\* an activity saved after a counted second without any counted distance
C18_Witness ==
  /\ saved.posted
  /\ saved.duration > 0
  /\ saved.distance.hundredths = 0
  /\ saved.avgPace.finite
  /\ saved.avgPace.hundredths = 0

\* the elevation gain of the delivered coordinates: the positive altitude
\* differences of the consecutive pairs in which both fixes report an altitude
RECURSIVE ReportedGain(_)
ReportedGain(delivered) ==
  IF Len(delivered) < 2 THEN 0
  ELSE LET last == delivered[Len(delivered)]
           before == delivered[Len(delivered) - 1]
           rest == ReportedGain(SubSeq(delivered, 1, Len(delivered) - 1))
       IN IF last.altitude # NoAltitude /\ before.altitude # NoAltitude
               /\ last.altitude > before.altitude
            THEN rest + (last.altitude - before.altitude)
            ELSE rest

\* C19: the saved elevation gain is the sum of the positive altitude
\* differences over the consecutive fix pairs in which both fixes reported
\* an altitude, an altitude of 0 meters counting as reported.
C19_ElevationGainOfReportedAltitudes ==
  (saved.posted /\ saveDialogOpen) => saved.elevationGain = ReportedGain(reports)

\* --------------------------------------------------------- validation claims
\* no stored record is created or changed
StoreUnchanged ==
  UNCHANGED <<challenges, participations, workouts, inflight, meals, foodEntries,
              nextFoodId, logVars>>

\* C20 as stated: every create-challenge request with goalValue <= 0 and
\* every add-food request with quantity <= 0 is answered 400 and creates or
\* changes no stored record.
C20_InvalidValueAnswered400 ==
  [][ /\ \A u \in Callers, b \in ChallengeBodies :
           (b.goalValue <= 0 /\ CreateChallenge(u, b))
             => (response'.status = 400 /\ StoreUnchanged)
      /\ \A q \in AddFoodRequests :
           (q[3].quantity <= 0 /\ AddFood(q[1], q[2], q[3]))
             => (response'.status = 400 /\ StoreUnchanged) ]_vars

\* C20 amended: such a request creates or changes no stored record, and it
\* is answered 400 when it comes from a signed-in user (for add-food: for a
\* meal of that user), 401 without a session, and 404 for a meal that is
\* missing or another user's.
C20_InvalidValueChangesNothing ==
  [][ /\ \A u \in Callers, b \in ChallengeBodies :
           (b.goalValue <= 0 /\ CreateChallenge(u, b))
             => /\ StoreUnchanged
                /\ response'.status = IF u = NoUser THEN 401 ELSE 400
      /\ \A q \in AddFoodRequests :
           (q[3].quantity <= 0 /\ AddFood(q[1], q[2], q[3]))
             => /\ StoreUnchanged
                /\ response'.status =
                     IF q[1] = NoUser THEN 401
                     ELSE IF q[2] \in DOMAIN meals /\ meals[q[2]].userId = q[1] THEN 400
                     ELSE 404 ]_vars

\* a meal without entries whose owner was just refused a food entry
C20_Witness ==
  /\ response.handler = "addFood"
  /\ response.status = 400
  /\ Len(meals) = 1
  /\ foodEntries = {}
  /\ meals[1].totalCalories = 0

\* ---------------------------------------------------- challenge window claim
\* C21: every challenge in the store has endDate >= startDate.
C21_EndDateNotBeforeStartDate ==
  \A c \in DOMAIN challenges : challenges[c].endDate >= challenges[c].startDate

\* --------------------------------------------------------------- frame claims
\* the stored records of every table
RecordsUnchanged ==
  UNCHANGED <<challenges, participations, workouts, meals, foodEntries, nextFoodId,
              logVars>>

\* C22: no step of a leaderboard request changes a stored record, whatever
\* other requests are suspended around it.
C22_LeaderboardChangesNoRecord ==
  [][(LeaderboardLookupStep \/ LeaderboardFetchStep) => RecordsUnchanged]_vars

\* a leaderboard answered while a join of another user was suspended
C22_Witness ==
  /\ response.handler = "leaderboard"
  /\ response.status = 200
  /\ Len(response.leaderboard) = 1
  /\ \E req \in BagToSet(inflight) : req.pc = "joinChecked"

\* the number of rows of each table that a step creates, deletes or changes
MealRowsChanged ==
  Cardinality({ i \in DOMAIN meals \cup DOMAIN meals' :
                  i \notin DOMAIN meals \/ i \notin DOMAIN meals' \/ meals[i] # meals'[i] })
ChallengeRowsChanged ==
  Cardinality({ c \in DOMAIN challenges \cup DOMAIN challenges' :
                  \/ c \notin DOMAIN challenges
                  \/ c \notin DOMAIN challenges'
                  \/ challenges[c] # challenges'[c] })
FoodRowsChanged ==
  Cardinality((foodEntries \ foodEntries') \cup (foodEntries' \ foodEntries))
ParticipationRowsChanged ==
  BagCardinality(participations' (-) participations)
    + BagCardinality(participations (-) participations')
WorkoutRowsChanged ==
  BagCardinality(workouts' (-) workouts) + BagCardinality(workouts (-) workouts')
RowsChanged ==
  MealRowsChanged + ChallengeRowsChanged + FoodRowsChanged + ParticipationRowsChanged
    + WorkoutRowsChanged

\* the request answered last, with no other request suspended, was this
\* successful create
JustCreatedMeal(u) ==
  /\ Quiescent
  /\ response.handler = "createMeal" /\ response.status = 201
  /\ meals # <<>>
  /\ meals[Len(meals)].userId = u
  /\ meals[Len(meals)].date = now
JustAddedFood(u, mealId, body) ==
  /\ Quiescent
  /\ response.handler = "addFood" /\ response.status = 201
  /\ mealId \in DOMAIN meals
  /\ meals[mealId].userId = u
  /\ [id |-> nextFoodId - 1, mealId |-> mealId, quantity |-> body.quantity,
      calories |-> body.calories, protein |-> body.protein,
      carbs |-> body.carbs, fats |-> body.fats] \in foodEntries
JustCreatedChallenge(u, body) ==
  /\ Quiescent
  /\ response.handler = "createChallenge" /\ response.status = 201
  /\ challenges # <<>>
  /\ challenges[Len(challenges)] =
       [creatorId |-> u, challengeType |-> body.challengeType,
        goalValue |-> body.goalValue, startDate |-> body.startDate,
        endDate |-> body.endDate]

C24_ListedExactlyWhenBucketKeyIsDay ==
  (response.handler = "mealsOfDay" /\ response.status = 200) =>
    \A i \in DOMAIN meals :
      meals[i].userId = response.request.caller =>
        ((\E j \in DOMAIN response.meals : response.meals[j].meal.id = i)
           <=> DateKey(meals[i].date) = response.request.date)

\* ------------------------------------------------------------- answer claims
\* the statuses the handlers answer with
HandlerStatuses == {200, 201, 400, 401, 403, 404, 500}

\* C25: every finished request has been answered with a status among 200,
\* 201, 400, 401, 403, 404 and 500, also when a store call of the
\* create-challenge handler threw.
C25_EveryRequestAnswered ==
  response.handler # "none" => response.status \in HandlerStatuses

\* ------------------------------------------------------- delete-food frame claim
\* C26: a delete-food request changes the stored totals of no meal other
\* than the one that owned the deleted food entry; in particular the meals
\* of users other than the requester keep their totals, whatever meal id is
\* in the request path.
C26_DeleteChangesOnlyOwningMeal ==
  [][ \A q \in DeleteFoodRequests :
        DeleteFood(q[1], q[2], q[3]) =>
          \A i \in DOMAIN meals :
            meals'[i] # meals[i] =>
              /\ meals[i].userId = q[1]
              /\ \E e \in foodEntries \ foodEntries' : e.mealId = i ]_vars

\* ------------------------------------------------------------ ownership claims
\* C27: a delete request for a weight log, a body measurement, an activity
\* or an exercise removes no record but the one it names, and that one only
\* when it belongs to the requesting user (an exercise belongs to the user
\* of its workout); when the named record exists and belongs to another
\* user, the answer is 403 or 404 and no stored record changes.
C27_DeleteOnlyOwnRecords ==
  [][ /\ response'.handler = "deleteWeightLog" =>
           \A u \in Users, id \in RowIdsSent :
             DeleteWeightLog(u, id) =>
               /\ \A row \in weightLogs \ weightLogs' : row.id = id /\ row.userId = u
               /\ (\E row \in weightLogs : row.id = id /\ row.userId # u)
                    => (response'.status \in {403, 404} /\ RecordsUnchanged)
      /\ response'.handler = "deleteMeasurement" =>
           \A u \in Users, id \in RowIdsSent :
             DeleteMeasurement(u, id) =>
               /\ \A row \in bodyMeasurements \ bodyMeasurements' :
                    row.id = id /\ row.userId = u
               /\ (\E row \in bodyMeasurements : row.id = id /\ row.userId # u)
                    => (response'.status \in {403, 404} /\ RecordsUnchanged)
      /\ response'.handler = "deleteActivity" =>
           \A u \in Users, id \in RowIdsSent :
             DeleteActivity(u, id) =>
               /\ \A row \in activities \ activities' : row.id = id /\ row.userId = u
               /\ (\E row \in activities : row.id = id /\ row.userId # u)
                    => (response'.status \in {403, 404} /\ RecordsUnchanged)
      /\ response'.handler = "deleteExercise" =>
           \A u \in Users, id \in RowIdsSent :
             DeleteExercise(u, id) =>
               /\ \A row \in exercises \ exercises' :
                    /\ row.id = id
                    /\ \E w \in BagToSet(workouts) :
                         w.id = row.workoutId /\ w.userId = u
               /\ (\E row \in exercises :
                     /\ row.id = id
                     /\ \E w \in BagToSet(workouts) :
                          w.id = row.workoutId /\ w.userId # u)
                    => (response'.status \in {403, 404} /\ RecordsUnchanged) ]_vars

\* bob has just been refused the delete of alice's weight log, which is
\* still stored, after an activity of bob's own was deleted
C27_Witness ==
  /\ response.handler = "deleteWeightLog"
  /\ response.status = 403
  /\ weightLogs = { [id |-> 2, userId |-> "alice", weight |-> 70] }
  /\ activities = {}
  /\ nextRowId = 3

\* C28: within one workout the orderIndex values are pairwise distinct and
\* ascend in the order in which the exercises were added.
C28_OrderIndexFollowsInsertion ==
  \A e, f \in exercises :
    (e.workoutId = f.workoutId /\ e.id < f.id) => e.orderIndex < f.orderIndex

\* ------------------------------------------------------------ paused fix claim
\* C29: a GPS fix that arrives while the recorder is paused changes neither
\* the accumulated distance nor the list of recorded positions.
C29_PausedFixChangesNothing ==
  [][(isPaused /\ OnPositionStep) => UNCHANGED <<distance, positions>>]_vars

\* ------------------------------------------------------------ atomicity claim
\* C30: right after a create-challenge request has finished, with 201 or
\* after a failed store call, the challenge it created is in the store only
\* together with a participation of its creator.
C30_ChallengeOnlyWithCreatorParticipation ==
  (Quiescent /\ response.handler = "createChallenge" /\ response.status \notin {400, 401})
    => /\ challenges # <<>>
       /\ FindParticipation(participations, Len(challenges),
                            challenges[Len(challenges)].creatorId) # {}

====
